---- MODULE Spec2Model ----
\* PrimeShipping: the SFI command-line backend (src/sfi_cli.py) and the web
\* route in front of its generate command (src/app.py).
\*
\* Every attribute value of a fixed catalog is given a prime; a shipment is the
\* product of the primes of its attributes; filtering is a divisibility test.
\*
\* The module models
\*   - the import-time construction of PRIME_MAP / REVERSE_PRIME_MAP, one loop
\*     iteration per step (get_primes, generate_prime_map);
\*   - the codec (encode_shipment, decode_sfi_vector) as operators computed the
\*     way the code computes them;
\*   - the commands of main() acting on the persisted file shipments.json.
\* The construction is deterministic and takes no input, so the maps built by
\* one import stand for the maps every later process builds again.
EXTENDS Integers, Sequences, FiniteSets, TLC

VARIABLES
    pc,                 \* "get_primes" | "assign" | "ready": position of the import
    primes,             \* get_primes: the list being built
    num,                \* get_primes: the candidate
    group_idx,          \* generate_prime_map: outer loop position (0 = not entered)
    value_idx,          \* generate_prime_map: inner loop position
    prime_idx,          \* generate_prime_map: prime_idx (0-based, as in the code)
    PRIME_MAP,          \* group -> value -> prime
    REVERSE_PRIME_MAP,  \* prime -> [group, value]
    shipments_file,     \* shipments.json: whether it exists, and the list in it
    cmd,                \* the last call and its arguments
    result              \* what that call returned (or the fault it raised)

vars == <<pc, primes, num, group_idx, value_idx, prime_idx, PRIME_MAP,
          REVERSE_PRIME_MAP, shipments_file, cmd, result>>

buildVars == <<pc, primes, num, group_idx, value_idx, prime_idx, PRIME_MAP,
               REVERSE_PRIME_MAP>>

----------------------------------------------------------------------------
\* The catalog.  A Python dict keeps insertion order, so it is a sequence.

ATTRIBUTE_GROUPS ==
    << [group |-> "origin",
        values |-> <<"New York", "Los Angeles", "Chicago", "Houston", "Miami">>],
       [group |-> "destination",
        values |-> <<"London", "Tokyo", "Paris", "Sydney", "Berlin">>],
       [group |-> "carrier",
        values |-> <<"PrimeShip", "SwiftLog", "GlobalEx", "CargoFast">>],
       [group |-> "status",
        values |-> <<"Pending", "In Transit", "Delivered", "Delayed", "Customs Hold">>],
       [group |-> "priority",
        values |-> <<"Standard", "Express", "Overnight">> ] >>

GroupNames == { ATTRIBUTE_GROUPS[i].group : i \in DOMAIN ATTRIBUTE_GROUPS }

ValuesOf(g) ==
    (CHOOSE e \in { ATTRIBUTE_GROUPS[i] : i \in DOMAIN ATTRIBUTE_GROUPS } : e.group = g).values

SeqRange(s) == { s[i] : i \in DOMAIN s }

\* An empty dict.
EmptyDict == <<>>

\* Mutant of DictSet: d.setdefault(k, v), an existing key keeps its value.
DictSetDefault(d, k, v) == d @@ (k :> v)

\* d[k] = v of a Python dict: an existing key is overwritten.
DictSet(d, k, v) == (k :> v) @@ d

\* shipments.json: absent (os.path.exists is False), or holding a list.
NoFile == [exists |-> FALSE, shipments |-> <<>>]
FileOf(shipments) == [exists |-> TRUE, shipments |-> shipments]
NoCall == [op |-> "none"]
NoResult == [kind |-> "none"]

----------------------------------------------------------------------------
\* get_primes

\* int(math.sqrt(num))
int_sqrt(n) == CHOOSE k \in 0..n : k * k <= n /\ (k + 1) * (k + 1) > n

\* Mutant of is_prime: range(2, int(sqrt(num))), the + 1 forgotten.
is_prime_short_range(n) == \A i \in 2..(int_sqrt(n) - 1) : n % i # 0

\* The for loop of get_primes: is_prime stays True iff no i of
\* range(2, int(sqrt(num)) + 1) divides num.
is_prime(n) == \A i \in 2..int_sqrt(n) : n % i # 0

\* total_values = sum(len(values) for values in ATTRIBUTE_GROUPS.values())
RECURSIVE SumLens(_)
SumLens(i) ==
    IF i = 0 THEN 0 ELSE Len(ATTRIBUTE_GROUPS[i].values) + SumLens(i - 1)

total_values == SumLens(Len(ATTRIBUTE_GROUPS))

\* One iteration of `while len(primes) < count`.
GetPrimesStep ==
    /\ pc = "get_primes"
    /\ Len(primes) < total_values
    /\ primes' = IF is_prime(num) THEN Append(primes, num) ELSE primes
    /\ num' = num + 1
    /\ UNCHANGED <<pc, group_idx, value_idx, prime_idx, PRIME_MAP,
                   REVERSE_PRIME_MAP, shipments_file, cmd, result>>

\* `return primes`, back in generate_prime_map with prime_idx = 0.
GetPrimesReturn ==
    /\ pc = "get_primes"
    /\ Len(primes) >= total_values
    /\ pc' = "assign"
    /\ UNCHANGED <<primes, num, group_idx, value_idx, prime_idx, PRIME_MAP,
                   REVERSE_PRIME_MAP, shipments_file, cmd, result>>

----------------------------------------------------------------------------
\* generate_prime_map

GroupDone ==
    IF group_idx = 0 THEN TRUE
    ELSE value_idx > Len(ATTRIBUTE_GROUPS[group_idx].values)

\* `for group, values in ATTRIBUTE_GROUPS.items(): prime_map[group] = {}`
EnterGroup ==
    /\ pc = "assign"
    /\ GroupDone
    /\ group_idx < Len(ATTRIBUTE_GROUPS)
    /\ group_idx' = group_idx + 1
    /\ value_idx' = 1
    /\ PRIME_MAP' = DictSet(PRIME_MAP, ATTRIBUTE_GROUPS[group_idx + 1].group, EmptyDict)
    /\ UNCHANGED <<pc, primes, num, prime_idx, REVERSE_PRIME_MAP,
                   shipments_file, cmd, result>>

\* Mutant of NextPrime: indexes with the position inside the group, so every
\* group starts again at the first prime.
NextPrimePerGroup == primes[value_idx]

\* primes[prime_idx] of the code's 0-based list.
NextPrime == primes[prime_idx + 1]

\* One iteration of `for value in values`.
AssignValue ==
    /\ pc = "assign"
    /\ ~GroupDone
    /\ LET group == ATTRIBUTE_GROUPS[group_idx].group
           value == ATTRIBUTE_GROUPS[group_idx].values[value_idx]
           prime == NextPrime
       IN  /\ PRIME_MAP' = [PRIME_MAP EXCEPT ![group] = DictSet(@, value, prime)]
           /\ REVERSE_PRIME_MAP' =
                  DictSet(REVERSE_PRIME_MAP, prime, [group |-> group, value |-> value])
    /\ prime_idx' = prime_idx + 1
    /\ value_idx' = value_idx + 1
    /\ UNCHANGED <<pc, primes, num, group_idx, shipments_file, cmd, result>>

\* `return prime_map, reverse_prime_map`; the module globals are bound.
AssignReturn ==
    /\ pc = "assign"
    /\ GroupDone
    /\ group_idx = Len(ATTRIBUTE_GROUPS)
    /\ pc' = "ready"
    /\ UNCHANGED <<primes, num, group_idx, value_idx, prime_idx, PRIME_MAP,
                   REVERSE_PRIME_MAP, shipments_file, cmd, result>>

Build == GetPrimesStep \/ GetPrimesReturn \/ EnterGroup \/ AssignValue \/ AssignReturn

----------------------------------------------------------------------------
\* Values as json.loads yields them (and as Python compares them): only a string
\* can be a key of PRIME_MAP[group]; a list or an object is unhashable.

JStr(s) == [kind |-> "string", str |-> s]
JNum == [kind |-> "number", str |-> ""]
JList == [kind |-> "list", str |-> ""]

\* `value in PRIME_MAP[group]` raises TypeError for an unhashable value.
Unhashable(value) == value.kind \in {"list", "object"}

\* `group in PRIME_MAP and value in PRIME_MAP[group]`, for a hashable value.
InPrimeMap(group, value) ==
    /\ group \in DOMAIN PRIME_MAP
    /\ value.kind = "string"
    /\ value.str \in DOMAIN PRIME_MAP[group]

\* The test raises iff its second conjunct is reached with an unhashable value.
MembershipRaises(group, value) ==
    group \in DOMAIN PRIME_MAP /\ Unhashable(value)

----------------------------------------------------------------------------
\* encode_shipment.  shipment_details is a dict: a sequence of <<group, value>>
\* pairs with distinct groups, in insertion order.

RECURSIVE encode_loop(_, _, _)
encode_loop(shipment_details, i, sfi_vector) ==
    IF i > Len(shipment_details) THEN [raised |-> FALSE, value |-> sfi_vector]
    ELSE LET group == shipment_details[i][1]
             value == shipment_details[i][2]
         IN  IF MembershipRaises(group, value)
             THEN [raised |-> TRUE, value |-> 0]              \* except: return None
             ELSE IF InPrimeMap(group, value)
             THEN encode_loop(shipment_details, i + 1,
                              sfi_vector * PRIME_MAP[group][value.str])
             ELSE encode_loop(shipment_details, i + 1, sfi_vector)   \* logged, skipped

\* Mutant of encode_shipment: the product starts from 0.
encode_shipment_from_zero(shipment_details) == encode_loop(shipment_details, 1, 0)

\* Mutant of encode_shipment: the first pair is never multiplied in.
encode_shipment_skip_first(shipment_details) == encode_loop(shipment_details, 2, 1)

\* [raised |-> TRUE] stands for the None the except branch returns.
encode_shipment(shipment_details) == encode_loop(shipment_details, 1, 1)

----------------------------------------------------------------------------
\* decode_sfi_vector

RECURSIVE SortedSeq(_)
SortedSeq(S) ==
    IF S = {} THEN <<>>
    ELSE LET m == CHOOSE x \in S : \A y \in S : x <= y
         IN  <<m>> \o SortedSeq(S \ {m})

\* while temp_vector % prime == 0: temp_vector //= prime
RECURSIVE divide_out(_, _)
divide_out(temp_vector, prime) ==
    IF temp_vector % prime = 0 THEN divide_out(temp_vector \div prime, prime)
    ELSE temp_vector

\* for prime in sorted_primes: ... with its break once temp_vector == 1
RECURSIVE decode_scan(_, _, _, _)
decode_scan(sorted_primes, i, temp_vector, decoded_attributes) ==
    IF i > Len(sorted_primes)
    THEN [temp_vector |-> temp_vector, decoded_attributes |-> decoded_attributes]
    ELSE LET prime == sorted_primes[i]
         IN  IF temp_vector % prime = 0
             THEN LET attribute_info == REVERSE_PRIME_MAP[prime]
                      decoded == DictSet(decoded_attributes, attribute_info.group,
                                         attribute_info.value)
                      rest == divide_out(temp_vector, prime)
                  IN  IF rest = 1
                      THEN [temp_vector |-> rest, decoded_attributes |-> decoded]
                      ELSE decode_scan(sorted_primes, i + 1, rest, decoded)
             ELSE decode_scan(sorted_primes, i + 1, temp_vector, decoded_attributes)

WarningText(sfi_vector, temp_vector) ==
    "Vector " \o ToString(sfi_vector)
        \o " contains unrecognized factors or is incomplete. Remainder: "
        \o ToString(temp_vector)

\* Mutant of attach_warning: the message names the vector where the remainder
\* belongs.
attach_warning_vector(sfi_vector, scan) ==
    IF scan.temp_vector # 1
    THEN DictSet(scan.decoded_attributes, "warning",
                 WarningText(sfi_vector, sfi_vector))
    ELSE scan.decoded_attributes

\* if temp_vector != 1: decoded_attributes["warning"] = ...
attach_warning(sfi_vector, scan) ==
    IF scan.temp_vector # 1
    THEN DictSet(scan.decoded_attributes, "warning",
                 WarningText(sfi_vector, scan.temp_vector))
    ELSE scan.decoded_attributes

\* for group in ATTRIBUTE_GROUPS.keys(): missing ones become "Unknown"
fill_unknown(decoded_attributes) ==
    [k \in DOMAIN decoded_attributes \cup GroupNames |->
        IF k \in DOMAIN decoded_attributes THEN decoded_attributes[k] ELSE "Unknown"]

InvalidVectorError == "Invalid SFI vector provided. Must be a positive integer."

\* The vector is an int: the command line parses it with type=int.
decode_sfi_vector(sfi_vector) ==
    IF sfi_vector <= 0 THEN ("error" :> InvalidVectorError)
    ELSE LET sorted_primes == SortedSeq(DOMAIN REVERSE_PRIME_MAP)
         IN  fill_unknown(attach_warning(sfi_vector,
                 decode_scan(sorted_primes, 1, sfi_vector, EmptyDict)))

----------------------------------------------------------------------------
\* Calls of the codec.  A call is made by a fresh caller (cmd = NoCall) and its
\* arguments and outcome are kept until the caller is done with them (Return).

\* Bound: how many assigned primes a decoded product holds.
MaxFactors == 3

\* TLC's integers are 32-bit; Python's are not.  Inputs are kept below this.
IntLimit == 2000 * 1000 * 1000

MaxValues == CHOOSE n \in 0..total_values :
    /\ \A i \in DOMAIN ATTRIBUTE_GROUPS : Len(ATTRIBUTE_GROUPS[i].values) <= n
    /\ \E i \in DOMAIN ATTRIBUTE_GROUPS : Len(ATTRIBUTE_GROUPS[i].values) = n

\* One index into each group's list of values.
ChoiceTuples ==
    { c \in [DOMAIN ATTRIBUTE_GROUPS -> 1..MaxValues] :
        \A i \in DOMAIN ATTRIBUTE_GROUPS : c[i] <= Len(ATTRIBUTE_GROUPS[i].values) }

\* {group: values[c[group]] for group, values in ATTRIBUTE_GROUPS.items()}
DetailsOf(c) ==
    [i \in DOMAIN ATTRIBUTE_GROUPS |->
        <<ATTRIBUTE_GROUPS[i].group, JStr(ATTRIBUTE_GROUPS[i].values[c[i]])>>]

\* Every mapping that gives exactly one catalog value to each group.
FullMappings == { DetailsOf(c) : c \in ChoiceTuples }

\* Mappings that are partial, name something outside the catalog, or hold a
\* value that cannot be looked up.
OddMappings ==
    { <<>>,
      << <<"origin", JStr("Miami")>>, <<"status", JStr("Delayed")>> >>,
      << <<"origin", JStr("Mars")>> >>,
      << <<"planet", JStr("Mars")>>, <<"priority", JStr("Express")>> >>,
      << <<"planet", JList>> >>,
      << <<"carrier", JStr("SwiftLog")>>, <<"origin", JList>> >> }

RECURSIVE Product(_)
Product(S) ==
    IF S = {} THEN 1
    ELSE LET x == CHOOSE y \in S : TRUE IN x * Product(S \ {x})

RECURSIVE SubsetsUpTo(_, _)
SubsetsUpTo(S, k) ==
    IF k = 0 THEN {{}}
    ELSE LET smaller == SubsetsUpTo(S, k - 1)
         IN  smaller \cup { T \cup {x} : T \in smaller, x \in S }

\* A factor that is no assigned prime (1: none).
Cofactors == {1, 999983}

\* Vectors given as they are: invalid ones, repeated factors, unknown factors.
RawVectors == {0 - 5, 0, 4, 12, 2 * 2 * 13 * 13, 999983, 83, 83 * 89}

NoDetails == <<>>

DecodeCmd(v, from, details, factors, cofactor) ==
    [op |-> "decode", sfi_vector |-> v, from |-> from, shipment_details |-> details,
     factors |-> factors, cofactor |-> cofactor]

\* A fresh caller, once the module is imported.
Idle == pc = "ready" /\ cmd = NoCall

EncodeCall ==
    /\ Idle
    /\ \E shipment_details \in FullMappings \cup OddMappings :
          /\ cmd' = [op |-> "encode", shipment_details |-> shipment_details]
          /\ result' = encode_shipment(shipment_details)
    /\ UNCHANGED <<buildVars, shipments_file>>

\* decode_sfi_vector(encode_shipment(details))
DecodeEncoded ==
    /\ pc = "ready"
    /\ cmd.op = "encode"
    /\ ~result.raised
    /\ cmd' = DecodeCmd(result.value, "encode", cmd.shipment_details, {}, 1)
    /\ result' = decode_sfi_vector(result.value)
    /\ UNCHANGED <<buildVars, shipments_file>>

\* decode_sfi_vector of the product of a set of assigned primes and a cofactor
DecodeProduct ==
    /\ Idle
    /\ \E factors \in SubsetsUpTo(DOMAIN REVERSE_PRIME_MAP, MaxFactors) :
          \E cofactor \in Cofactors :
             /\ Product(factors) <= IntLimit \div cofactor
             /\ cmd' = DecodeCmd(Product(factors) * cofactor, "product", NoDetails,
                                 factors, cofactor)
             /\ result' = decode_sfi_vector(Product(factors) * cofactor)
    /\ UNCHANGED <<buildVars, shipments_file>>

DecodeRaw ==
    /\ Idle
    /\ \E sfi_vector \in RawVectors :
          /\ cmd' = DecodeCmd(sfi_vector, "raw", NoDetails, {}, 1)
          /\ result' = decode_sfi_vector(sfi_vector)
    /\ UNCHANGED <<buildVars, shipments_file>>

\* The caller is done; nothing of the call is kept.
Return ==
    /\ pc = "ready"
    /\ cmd # NoCall
    /\ cmd' = NoCall
    /\ result' = NoResult
    /\ UNCHANGED <<buildVars, shipments_file>>

Codec == EncodeCall \/ DecodeEncoded \/ DecodeProduct \/ DecodeRaw \/ Return

----------------------------------------------------------------------------
\* generate_shipment_data

\* Bound: the largest count given to generate.
MaxCount == 2

\* Bound: how many outcomes of the random calls of one loop iteration are
\* enumerated.
MaxDraws == 5

\* One outcome of the random calls of one iteration: random.randint(10000,
\* 99999) and one random.choice per group.  The k-th enumerated outcome takes
\* the k-th value of every group (cyclically) and one end of the randint range,
\* so MaxDraws >= 5 makes every catalog value appear.  (encode_shipment is
\* applied to all 1500 combinations by EncodeCall.)
SampleDraw(k) ==
    [randint |-> IF k % 2 = 1 THEN 10000 ELSE 99999,
     choice |-> [i \in DOMAIN ATTRIBUTE_GROUPS |->
                    ((k - 1) % Len(ATTRIBUTE_GROUPS[i].values)) + 1]]

RandomDraws == { SampleDraw(k) : k \in 1..MaxDraws }

\* f"{i:03d}"
Pad3(i) ==
    IF i < 10 THEN "00" \o ToString(i)
    ELSE IF i < 100 THEN "0" \o ToString(i)
    ELSE ToString(i)

\* f"SHP{random.randint(10000, 99999):05d}{i:03d}"
ShipmentId(randint, i) == "SHP" \o ToString(randint) \o Pad3(i)

\* for i in range(count): ...  (i is 0-based; draws[i + 1] is what the random
\* calls of iteration i return)
RECURSIVE generate_loop(_, _, _, _)
generate_loop(count, draws, i, shipments) ==
    IF i >= count THEN shipments
    ELSE LET shipment_id == ShipmentId(draws[i + 1].randint, i)
             details == DetailsOf(draws[i + 1].choice)
             sfi_vector == encode_shipment(details)
         IN  IF ~sfi_vector.raised
             THEN generate_loop(count, draws, i + 1,
                      Append(shipments, [id |-> shipment_id,
                                         sfi_vector |-> sfi_vector.value]))
             ELSE generate_loop(count, draws, i + 1, shipments)

Returned(value) == [kind |-> "returned", value |-> value]
Raised(exception) == [kind |-> "raised", exception |-> exception]

\* range(count) is empty for count <= 0.
Iterations(count) == IF count > 0 THEN count ELSE 0

\* generate_shipment_data as it would be if the file were opened for appending:
\* the new records are added after those already in the file.
generate_shipment_data_append(count, draws, write_ok) ==
    LET shipments == generate_loop(count, draws, 0, <<>>)
    IN  IF write_ok
        THEN [file |-> FileOf(shipments_file.shipments \o shipments),
              result |-> Returned([success |-> TRUE, count |-> Len(shipments),
                                   file |-> "shipments.json"])]
        ELSE [file |-> shipments_file,
              result |-> Returned([success |-> FALSE,
                                   error |-> "Could not write to shipments.json"])]

\* What generate_shipment_data(count) leaves in the file and returns.  write_ok
\* is whether open(SHIPMENTS_FILE, "w") and json.dump succeed.
generate_shipment_data(count, draws, write_ok) ==
    LET shipments == generate_loop(count, draws, 0, <<>>)
    IN  IF write_ok
        THEN [file |-> FileOf(shipments),
              result |-> Returned([success |-> TRUE, count |-> Len(shipments),
                                   file |-> "shipments.json"])]
        ELSE [file |-> shipments_file,
              result |-> Returned([success |-> FALSE,
                                   error |-> "Could not write to shipments.json"])]

\* `sfi_cli.py generate --count <count>`
Generate ==
    /\ Idle
    /\ \E count \in (0 - 1)..MaxCount :
          \E draws \in [1..Iterations(count) -> RandomDraws], write_ok \in BOOLEAN :
             LET out == generate_shipment_data(count, draws, write_ok)
             IN  /\ cmd' = [op |-> "generate", count |-> count]
                 /\ shipments_file' = out.file
                 /\ result' = out.result
    /\ UNCHANGED buildVars

----------------------------------------------------------------------------
\* app.py, generate_data: the form field is a string, here a sequence of
\* one-character strings.

Digits == <<"0", "1", "2", "3", "4", "5", "6", "7", "8", "9">>

\* str.isdigit()
isdigit(s) == Len(s) > 0 /\ \A i \in DOMAIN s : s[i] \in SeqRange(Digits)

\* int(s), for a string of digits
RECURSIVE int(_)
int(s) ==
    IF s = <<>> THEN 0
    ELSE 10 * int(SubSeq(s, 1, Len(s) - 1))
            + (CHOOSE d \in DOMAIN Digits : Digits[d] = s[Len(s)]) - 1

FormChars == {"0", "1", "2", "-", "x"}

FormCounts ==
    { s \in {<<>>} \cup [1..1 -> FormChars] \cup [1..2 -> FormChars] :
        isdigit(s) => int(s) <= MaxCount }

InvalidCountError == "Invalid count specified. Must be a positive integer."

\* POST /generate: the route validates the count before it runs the command.
HttpGenerate ==
    /\ Idle
    /\ \E count \in FormCounts :
          /\ cmd' = [op |-> "http_generate", form_count |-> count]
          /\ IF ~isdigit(count) \/ int(count) <= 0
             THEN /\ result' = Returned([success |-> FALSE, error |-> InvalidCountError,
                                         status |-> 400])
                  /\ UNCHANGED shipments_file
             ELSE \E draws \in [1..int(count) -> RandomDraws], write_ok \in BOOLEAN :
                     LET out == generate_shipment_data(int(count), draws, write_ok)
                     IN  /\ shipments_file' = out.file
                         /\ result' = out.result
    /\ UNCHANGED buildVars

----------------------------------------------------------------------------
\* filter_shipment_data

\* Bound: the largest number of pairs in a criteria object.
MaxCriteria == 2

\* The text given as --criteria, by what json.loads makes of it: "invalid" is
\* text that is no JSON; an "object" holds its items in order, keys distinct.
JsonInvalid == [kind |-> "invalid", items |-> <<>>]
JsonObject(items) == [kind |-> "object", items |-> items]
JsonOther == { [kind |-> k, items |-> <<>>] : k \in {"list", "number", "string", "null"} }

CriteriaPairs ==
    { <<"origin", JStr("New York")>>, <<"origin", JStr("Los Angeles")>>,
      <<"destination", JStr("London")>>, <<"carrier", JStr("PrimeShip")>>,
      <<"status", JStr("In Transit")>>,
      <<"origin", JStr("Mars")>>, <<"status", JStr("London")>>,
      <<"planet", JStr("Mars")>>, <<"priority", JNum>>,
      <<"destination", JList>>, <<"planet", JList>> }

RECURSIVE ItemLists(_)
ItemLists(n) ==
    IF n = 0 THEN {<<>>}
    ELSE LET shorter == ItemLists(n - 1)
         IN  shorter \cup
             UNION { { Append(items, pair) :
                         pair \in { q \in CriteriaPairs :
                                      \A i \in DOMAIN items : items[i][1] # q[1] } } :
                     items \in shorter }

CriteriaTexts ==
    {JsonInvalid} \cup JsonOther \cup { JsonObject(items) : items \in ItemLists(MaxCriteria) }

\* for group, value in criteria.items(): ...   The loop ends early, with
\* raised, where the membership test raises TypeError.
RECURSIVE criteria_loop(_, _, _, _)
criteria_loop(items, i, filter_vector, valid_criteria) ==
    IF i > Len(items)
    THEN [raised |-> FALSE, filter_vector |-> filter_vector,
          valid_criteria |-> valid_criteria]
    ELSE LET group == items[i][1]
             value == items[i][2]
         IN  IF MembershipRaises(group, value)
             THEN [raised |-> TRUE, filter_vector |-> filter_vector,
                   valid_criteria |-> valid_criteria]
             ELSE IF InPrimeMap(group, value)
             THEN criteria_loop(items, i + 1,
                      filter_vector * PRIME_MAP[group][value.str],
                      DictSet(valid_criteria, group, value.str))
             ELSE criteria_loop(items, i + 1, filter_vector, valid_criteria)

\* Mutant of Matches: the test is on the remainder of the filter vector.
MatchesSwapped(shipment, filter_vector) ==
    filter_vector % (IF shipment.sfi_vector > 0 THEN shipment.sfi_vector ELSE 1) = 0

\* shipment["sfi_vector"] % filter_vector == 0
Matches(shipment, filter_vector) == shipment.sfi_vector % filter_vector = 0

\* for shipment in all_shipments: ...   A shipment with no sfi_vector is
\* logged and skipped.  (Every sfi_vector of the model is an int.)
RECURSIVE scan_shipments(_, _, _, _)
scan_shipments(all_shipments, i, filter_vector, matching_shipments) ==
    IF i > Len(all_shipments) THEN matching_shipments
    ELSE LET shipment == all_shipments[i]
         IN  IF "sfi_vector" \in DOMAIN shipment /\ Matches(shipment, filter_vector)
             THEN scan_shipments(all_shipments, i + 1, filter_vector,
                                 Append(matching_shipments, shipment))
             ELSE scan_shipments(all_shipments, i + 1, filter_vector,
                                 matching_shipments)

FileNotFoundError == "Shipments file 'shipments.json' not found. Please generate data first."
InvalidJsonError == "Invalid JSON in filter criteria"
InternalError == "Internal error creating filter vector from valid criteria."
NoCriteriaError == "No valid filter criteria provided."
ReadError == "Could not read shipments.json"

Failure(error) == Returned([success |-> FALSE, error |-> error])

\* Mutant of FilterVectorCheck: the guard against an empty criteria set is gone.
FilterVectorCheckNone(filter_vector, valid_criteria) == "ok"

\* if filter_vector == 1 and valid_criteria: ... elif filter_vector == 1: ...
FilterVectorCheck(filter_vector, valid_criteria) ==
    IF filter_vector = 1 /\ DOMAIN valid_criteria # {} THEN "internal"
    ELSE IF filter_vector = 1 THEN "none"
    ELSE "ok"

\* What filter_shipment_data(criteria_json) gives back; read_ok is whether
\* open(SHIPMENTS_FILE, "r") and json.load succeed.
filter_shipment_data(criteria_json, read_ok) ==
    IF ~shipments_file.exists THEN Failure(FileNotFoundError)
    ELSE IF criteria_json.kind = "invalid" THEN Failure(InvalidJsonError)
    ELSE IF criteria_json.kind # "object" THEN Raised("AttributeError")
    ELSE LET built == criteria_loop(criteria_json.items, 1, 1, EmptyDict)
             check == FilterVectorCheck(built.filter_vector, built.valid_criteria)
         IN  IF built.raised THEN Raised("TypeError")
             ELSE IF check = "internal" THEN Failure(InternalError)
             ELSE IF check = "none" THEN Failure(NoCriteriaError)
             ELSE IF ~read_ok THEN Failure(ReadError)
             ELSE LET matching_shipments ==
                          scan_shipments(shipments_file.shipments, 1, built.filter_vector,
                                         <<>>)
                  IN  Returned([success |-> TRUE,
                                criteria_used |-> built.valid_criteria,
                                filter_vector |-> built.filter_vector,
                                total_checked |-> Len(shipments_file.shipments),
                                matches_found |-> Len(matching_shipments),
                                results |-> matching_shipments])

\* `sfi_cli.py filter --criteria <criteria_json>`.  An exception leaves
\* filter_shipment_data, main() reports it on stderr and exits with status 1,
\* printing no result.
Filter ==
    /\ Idle
    /\ \E criteria_json \in CriteriaTexts, read_ok \in BOOLEAN :
          /\ cmd' = [op |-> "filter", criteria_json |-> criteria_json]
          /\ result' = filter_shipment_data(criteria_json, read_ok)
    /\ UNCHANGED <<buildVars, shipments_file>>

----------------------------------------------------------------------------
\* The other commands of main()

CommandVectors == {0 - 5, 0, 1, 2 * 13 * 43 * 53 * 73, 2 * 3 * 999983}

\* `sfi_cli.py decode --vector <v>`
DecodeCommand ==
    /\ Idle
    /\ \E vector \in CommandVectors :
          LET decoded_data == decode_sfi_vector(vector)
          IN  /\ cmd' = [op |-> "decode_command", vector |-> vector]
              /\ result' =
                    IF "error" \in DOMAIN decoded_data
                    THEN Returned([success |-> FALSE, error |-> decoded_data["error"],
                                   vector |-> vector])
                    ELSE Returned([success |-> TRUE, vector |-> vector,
                                   decoded |-> decoded_data])
    /\ UNCHANGED <<buildVars, shipments_file>>

\* `sfi_cli.py primes`
PrimesCommand ==
    /\ Idle
    /\ cmd' = [op |-> "primes"]
    /\ result' = Returned([success |-> TRUE,
                           data |-> [attributes |-> ATTRIBUTE_GROUPS,
                                     prime_map |-> PRIME_MAP]])
    /\ UNCHANGED <<buildVars, shipments_file>>

----------------------------------------------------------------------------
\* The dataset is owned by the storage outside the program: a file written by
\* hand or by another tool may hold any records.

\* Bound: the length of such a dataset.
MaxRecords == 2

RecordPool ==
    { [id |-> "SHP10000000", sfi_vector |-> 2 * 13 * 31 * 47 * 71],
      [id |-> "SHP99999001", sfi_vector |-> 3 * 13 * 31 * 53 * 71],
      [id |-> "partial", sfi_vector |-> 2 * 13],
      [id |-> "two-origins", sfi_vector |-> 2 * 3 * 13 * 53],
      [id |-> "squared", sfi_vector |-> 2 * 2 * 53],
      [id |-> "one", sfi_vector |-> 1],
      [id |-> "zero", sfi_vector |-> 0],
      [id |-> "negative", sfi_vector |-> 0 - (2 * 13 * 53)],
      [id |-> "no-vector"] }

Datasets == UNION { [1..n -> RecordPool] : n \in 0..MaxRecords }

PlaceDataset ==
    /\ Idle
    /\ \E dataset \in Datasets : shipments_file' = FileOf(dataset)
    /\ UNCHANGED <<buildVars, cmd, result>>

----------------------------------------------------------------------------

Init ==
    /\ pc = "get_primes"
    /\ primes = <<>>
    /\ num = 2
    /\ group_idx = 0
    /\ value_idx = 0
    /\ prime_idx = 0
    /\ PRIME_MAP = EmptyDict
    /\ REVERSE_PRIME_MAP = EmptyDict
    /\ shipments_file = NoFile
    /\ cmd = NoCall
    /\ result = NoResult

SpecBuild == Init /\ [][Build]_vars

SpecCodec == Init /\ [][Build \/ Codec]_vars

Cli == Generate \/ HttpGenerate \/ Filter \/ DecodeCommand \/ PrimesCommand \/ Return

Spec == Init /\ [][Build \/ Cli]_vars

SpecDataset == Init /\ [][Build \/ PlaceDataset \/ Filter \/ Return]_vars

----------------------------------------------------------------------------
\* Vocabulary of the properties, independent of how the code computes.

\* n is prime: it is at least 2 and nothing between 2 and n - 1 divides it.
IsPrimeNumber(n) == n >= 2 /\ \A d \in 2..(n - 1) : n % d # 0

\* The catalog's (group, value) pairs in traversal order.
RECURSIVE PairsFrom(_)
PairsFrom(i) ==
    IF i > Len(ATTRIBUTE_GROUPS) THEN <<>>
    ELSE [j \in DOMAIN ATTRIBUTE_GROUPS[i].values |->
             [group |-> ATTRIBUTE_GROUPS[i].group,
              value |-> ATTRIBUTE_GROUPS[i].values[j]]] \o PairsFrom(i + 1)

CatalogPairs == PairsFrom(1)

PrimeOfPair(k) == PRIME_MAP[CatalogPairs[k].group][CatalogPairs[k].value]

AssignedPrimes == { PrimeOfPair(k) : k \in DOMAIN CatalogPairs }

SetMax(S) == CHOOSE x \in S : \A y \in S : y <= x
SetMin(S) == CHOOSE x \in S : \A y \in S : x <= y

\* Every pair is mapped, and the reverse map takes its prime back to it and
\* holds nothing else.
Bijective ==
    /\ \A k \in DOMAIN CatalogPairs :
          /\ CatalogPairs[k].group \in DOMAIN PRIME_MAP
          /\ CatalogPairs[k].value \in DOMAIN PRIME_MAP[CatalogPairs[k].group]
          /\ REVERSE_PRIME_MAP[PrimeOfPair(k)] = CatalogPairs[k]
    /\ DOMAIN REVERSE_PRIME_MAP = AssignedPrimes

\* The k-th pair holds the smallest prime that no earlier pair holds.
SmallestUnusedInOrder ==
    \A k \in DOMAIN CatalogPairs :
        LET earlier == { PrimeOfPair(j) : j \in 1..(k - 1) }
            p == PrimeOfPair(k)
        IN  /\ IsPrimeNumber(p)
            /\ p \notin earlier
            /\ \A q \in 2..(p - 1) : IsPrimeNumber(q) => q \in earlier

----------------------------------------------------------------------------
\* C3 as stated: once the maps are built they are a bijection over the catalog,
\* exactly 23 distinct primes are used, and the k-th pair in traversal order
\* holds the k-th prime.  (The catalog has 22 values, so this fails.)
C3_Original ==
    pc = "ready" =>
        /\ Bijective
        /\ Cardinality(AssignedPrimes) = 23
        /\ SmallestUnusedInOrder

\* C3, amended: once the maps are built, REVERSE_PRIME_MAP[PRIME_MAP[g][v]] is
\* {g, v} for every catalog pair, exactly 22 distinct primes are used (one per
\* catalog value), and the k-th pair in traversal order holds the k-th prime,
\* the smallest prime not yet assigned.
C3_Bijection ==
    pc = "ready" =>
        /\ Bijective
        /\ Cardinality(AssignedPrimes) = 22
        /\ Len(CatalogPairs) = 22
        /\ SmallestUnusedInOrder

\* The maps are built and the last pair of the catalog holds its prime.
C3_Witness ==
    /\ pc = "ready"
    /\ "priority" \in DOMAIN PRIME_MAP
    /\ "Overnight" \in DOMAIN PRIME_MAP["priority"]
    /\ prime_idx = 22

\* C9 as stated: the assigned primes are exactly the first 23 primes, from 2 to
\* 89.  (They are the first 22, from 2 to 79.)
C9_Original ==
    pc = "ready" =>
        /\ AssignedPrimes = { p \in 2..89 : IsPrimeNumber(p) }
        /\ Cardinality(AssignedPrimes) = 23
        /\ SetMin(AssignedPrimes) = 2
        /\ SetMax(AssignedPrimes) = 89

\* C9, amended: the assigned primes are exactly the first 22 primes; the
\* smallest is 2 and the largest is 79.
C9_FirstPrimes ==
    pc = "ready" =>
        /\ AssignedPrimes = { p \in 2..79 : IsPrimeNumber(p) }
        /\ Cardinality(AssignedPrimes) = 22
        /\ SetMin(AssignedPrimes) = 2
        /\ SetMax(AssignedPrimes) = 79

\* The maps are built and both ends of the range are keys of the reverse map.
C9_Witness ==
    /\ pc = "ready"
    /\ {2, 79} \subseteq DOMAIN REVERSE_PRIME_MAP

----------------------------------------------------------------------------
\* The codec's properties.

\* The dict a sequence of <<group, string value>> pairs stands for.
AsDict(shipment_details) ==
    [g \in { shipment_details[i][1] : i \in DOMAIN shipment_details } |->
        (CHOOSE pair \in SeqRange(shipment_details) : pair[1] = g)[2].str]

RoundTripCall ==
    /\ cmd.op = "decode"
    /\ cmd.from = "encode"
    /\ cmd.shipment_details \in FullMappings

\* C2: for every mapping that gives exactly one catalog value to each of the
\* five groups, decoding its encoding gives the mapping back, with no warning
\* entry and no group set to "Unknown".
C2_RoundTrip ==
    RoundTripCall =>
        /\ result = AsDict(cmd.shipment_details)
        /\ "warning" \notin DOMAIN result
        /\ "error" \notin DOMAIN result
        /\ \A g \in GroupNames : result[g] # "Unknown"

\* A mapping made of the last value of every group has been encoded and decoded.
C2_Witness ==
    /\ RoundTripCall
    /\ cmd.shipment_details[1][2].str = "Miami"
    /\ cmd.shipment_details[5][2].str = "Overnight"
    /\ cmd.sfi_vector = 11 * 29 * 43 * 67 * 79
    /\ DOMAIN result = GroupNames

MalformedCall ==
    /\ cmd.op = "decode"
    /\ cmd.sfi_vector = 2 * 3 * 999983

MalformedWarning ==
    "Vector 5999898 contains unrecognized factors or is incomplete. Remainder: 999983"

\* C4 as stated: decode(2 * 3 * 999983) returns origin=New York for prime 2 and
\* destination=London for prime 3, plus a warning that cites the remainder
\* 999983.  (Prime 3 is origin=Los Angeles, which replaces New York.)
C4_Original ==
    MalformedCall =>
        /\ "error" \notin DOMAIN result
        /\ result["origin"] = "New York"
        /\ result["destination"] = "London"
        /\ result["warning"] = MalformedWarning

\* C4, amended: decode(2 * 3 * 999983) succeeds; primes 2 and 3 both belong to
\* origin, so origin is the value of the larger one, Los Angeles; every other
\* group is "Unknown"; the warning cites the remainder 999983.
C4_MalformedDecode ==
    MalformedCall =>
        result = [g \in GroupNames \cup {"warning"} |->
                     IF g = "origin" THEN "Los Angeles"
                     ELSE IF g = "warning" THEN MalformedWarning
                     ELSE "Unknown"]

\* decode(2 * 3 * 999983) has returned, with a warning.
C4_Witness ==
    /\ MalformedCall
    /\ cmd.factors = {2, 3}
    /\ cmd.cofactor = 999983
    /\ "warning" \in DOMAIN result

\* A decode of the product of a set of assigned primes, and nothing else.
PartialCall ==
    /\ cmd.op = "decode"
    /\ cmd.from = "product"
    /\ cmd.cofactor = 1
    /\ cmd.factors # DOMAIN REVERSE_PRIME_MAP

FactorsOfGroup(g) == { p \in cmd.factors : REVERSE_PRIME_MAP[p].group = g }

\* C5 as stated: decoding the product of a proper subset T of the assigned
\* primes populates the group of every prime of T with that prime's value,
\* sets every other group to "Unknown", and gives no warning.  (Two primes of
\* one group cannot both be that group's value.)
C5_Original ==
    PartialCall =>
        /\ DOMAIN result = GroupNames
        /\ \A p \in cmd.factors :
              result[REVERSE_PRIME_MAP[p].group] = REVERSE_PRIME_MAP[p].value
        /\ \A g \in GroupNames : FactorsOfGroup(g) = {} => result[g] = "Unknown"

\* C5, amended: decoding the product of a proper subset T of the 22 assigned
\* primes gives no warning; a group with no prime in T is "Unknown"; a group
\* with primes in T holds the value of the largest of them.
C5_PartialDecode ==
    PartialCall =>
        /\ DOMAIN result = GroupNames
        /\ \A g \in GroupNames :
              result[g] = IF FactorsOfGroup(g) = {} THEN "Unknown"
                          ELSE REVERSE_PRIME_MAP[SetMax(FactorsOfGroup(g))].value

\* A product holding two primes of one group and one of another was decoded.
C5_Witness ==
    /\ PartialCall
    /\ cmd.factors = {2, 3, 13}
    /\ result["destination"] = "London"
    /\ result["carrier"] = "Unknown"

----------------------------------------------------------------------------
\* The filter's properties.

FilterSucceeded ==
    /\ cmd.op = "filter"
    /\ result.kind = "returned"
    /\ result.value.success

\* The prime of a criteria pair divides the record's vector; a pair that is not
\* in the assignment has no prime and asks nothing (it is dropped).
CarriesPair(shipment, pair) ==
    InPrimeMap(pair[1], pair[2]) =>
        shipment.sfi_vector % PRIME_MAP[pair[1]][pair[2].str] = 0

\* C1: a record with an integer sfi_vector is in the result of a filter iff
\* the prime of every pair of the criteria divides its sfi_vector, and the
\* result keeps the matching records in dataset order: the result is the
\* dataset with the other records left out.
C1_Divisibility ==
    FilterSucceeded =>
        LET Carries(shipment) ==
                /\ "sfi_vector" \in DOMAIN shipment
                /\ \A i \in DOMAIN cmd.criteria_json.items :
                      CarriesPair(shipment, cmd.criteria_json.items[i])
        IN  result.value.results = SelectSeq(shipments_file.shipments, Carries)

\* A filter on two pairs of the assignment kept the second of two records and
\* left the first out.
C1_Witness ==
    /\ FilterSucceeded
    /\ Cardinality(DOMAIN result.value.criteria_used) = 2
    /\ result.value.total_checked = 2
    /\ result.value.results = <<shipments_file.shipments[2]>>
    /\ shipments_file.shipments[1] # shipments_file.shipments[2]
    /\ "sfi_vector" \in DOMAIN shipments_file.shipments[1]

\* A filter call on a group -> value mapping, with the dataset present.
MappingCall ==
    /\ cmd.op = "filter"
    /\ shipments_file.exists
    /\ cmd.criteria_json.kind = "object"
    /\ \A i \in DOMAIN cmd.criteria_json.items :
          ~Unhashable(cmd.criteria_json.items[i][2])

\* The pairs of the criteria that the catalog holds.
ValidPairs ==
    { pair \in SeqRange(cmd.criteria_json.items) :
        /\ pair[1] \in GroupNames
        /\ pair[2].kind = "string"
        /\ pair[2].str \in SeqRange(ValuesOf(pair[1])) }

\* C7: with the dataset present, a filter on a criteria mapping fails with
\* "No valid filter criteria provided." exactly when no pair of the criteria is
\* in the assignment (the empty mapping included); with at least one valid pair
\* the filter vector is >= 2 and is the product of the primes of the valid
\* pairs, criteria_used lists exactly those pairs (unless the dataset cannot be
\* read, the only other outcome); the internal error is never returned.
C7_NoValidCriteria ==
    MappingCall =>
        /\ result.kind = "returned"
        /\ (ValidPairs = {}) <=>
              (result.value = [success |-> FALSE, error |-> NoCriteriaError])
        /\ ~result.value.success => result.value.error # InternalError
        /\ ValidPairs # {} =>
              \/ result.value = [success |-> FALSE, error |-> ReadError]
              \/ /\ result.value.success
                 /\ result.value.filter_vector >= 2
                 /\ result.value.filter_vector =
                       Product({ PRIME_MAP[pair[1]][pair[2].str] : pair \in ValidPairs })
                 /\ result.value.criteria_used =
                       [g \in { pair[1] : pair \in ValidPairs } |->
                           (CHOOSE pair \in ValidPairs : pair[1] = g)[2].str]

\* A filter on one valid and one invalid pair succeeded, on the valid pair alone.
C7_Witness ==
    /\ MappingCall
    /\ Len(cmd.criteria_json.items) = 2
    /\ Cardinality(ValidPairs) = 1
    /\ result.value.success
    /\ result.value.filter_vector = 31
    /\ DOMAIN result.value.criteria_used = {"carrier"}

----------------------------------------------------------------------------
\* The commands' properties.

Commands == {"generate", "http_generate", "filter", "decode_command", "primes"}

\* Criteria that are valid JSON but no group -> scalar mapping.
MalformedShape(criteria_json) ==
    \/ criteria_json.kind \in {"list", "number", "string", "null"}
    \/ /\ criteria_json.kind = "object"
       /\ \E i \in DOMAIN criteria_json.items : Unhashable(criteria_json.items[i][2])

\* C8 as stated: every command ends with an explicit success or failure
\* result, never a fault; a filter given criteria of malformed shape returns a
\* failure result.  (The code raises AttributeError or TypeError there.)
C8_Original ==
    cmd.op \in Commands =>
        /\ result.kind = "returned"
        /\ result.value.success \in BOOLEAN
        /\ (cmd.op = "filter" /\ MalformedShape(cmd.criteria_json)) =>
              ~result.value.success

\* C6 as stated: generate with a count of 0 or less returns a failure result
\* and leaves the persisted dataset as it was.  (The code writes an empty list
\* and reports success.)
C6_Original ==
    [][(cmd.op = "none" /\ cmd'.op = "generate" /\ cmd'.count <= 0) =>
          /\ result'.kind = "returned"
          /\ ~result'.value.success
          /\ shipments_file' = shipments_file]_vars

\* The primes of a group's values that divide v.
GroupFactors(g, v) ==
    { PRIME_MAP[g][value] : value \in { x \in DOMAIN PRIME_MAP[g] : v % PRIME_MAP[g][x] = 0 } }

\* C10: every record of a dataset that generate wrote has an sfi_vector that is
\* the product of exactly one assigned prime per group: exactly 5 distinct
\* prime factors, one from each group, each of multiplicity one.
C10_OnePrimePerGroup ==
    shipments_file.exists =>
        \A i \in DOMAIN shipments_file.shipments :
            LET v == shipments_file.shipments[i].sfi_vector
                factors == UNION { GroupFactors(g, v) : g \in GroupNames }
            IN  /\ v >= 2
                /\ \A g \in GroupNames : Cardinality(GroupFactors(g, v)) = 1
                /\ Cardinality(factors) = 5
                /\ \A p \in factors : IsPrimeNumber(p)
                /\ v = Product(factors)

\* A generate call wrote a dataset of two different records.
C10_Witness ==
    /\ shipments_file.exists
    /\ Len(shipments_file.shipments) = 2
    /\ shipments_file.shipments[1].sfi_vector = 11 * 29 * 31 * 67 * 73
    /\ shipments_file.shipments[2].sfi_vector = 2 * 13 * 31 * 47 * 71
    /\ cmd.op = "generate"

----------------------------------------------------------------------------
\* A step that runs a generate command (from the command line or the route)
\* and reports success.
GenerateSucceeds ==
    /\ cmd.op = "none"
    /\ cmd'.op \in {"generate", "http_generate"}
    /\ result'.kind = "returned"
    /\ result'.value.success

\* A step that runs a filter command and reports success.
FilterSucceeds ==
    /\ cmd.op = "none"
    /\ cmd'.op = "filter"
    /\ result'.kind = "returned"
    /\ result'.value.success

\* The records one generate call makes: the i-th carries the loop index i - 1
\* in its id and encodes one catalog value per group.
IsBatch(shipments) ==
    \A i \in DOMAIN shipments :
        \E d \in RandomDraws :
            shipments[i] = [id |-> ShipmentId(d.randint, i - 1),
                            sfi_vector |-> encode_shipment(DetailsOf(d.choice)).value]

\* C11: generate replaces the dataset.  Every successful generate leaves in the
\* file exactly the records of that call, as many as the count it reports,
\* whatever the file held before; every other step (a filter, a decode, a
\* failed generate) leaves the file as it was; and a successful filter reports
\* as total_checked the number of records in the file.  So after any sequence
\* of successful generates a following successful filter reports the count of
\* the last one.
C11_GenerateReplaces ==
    [][ /\ GenerateSucceeds =>
              /\ shipments_file'.exists
              /\ Len(shipments_file'.shipments) = result'.value.count
              /\ IsBatch(shipments_file'.shipments)
        /\ ~GenerateSucceeds => shipments_file' = shipments_file
        /\ FilterSucceeds =>
              result'.value.total_checked = Len(shipments_file.shipments)
      ]_vars

\* A filter succeeded on the one record that a generate of count 1 wrote and
\* reported one record checked.
C11_Witness ==
    /\ FilterSucceeded
    /\ result.value.total_checked = 1
    /\ shipments_file.exists
    /\ Len(shipments_file.shipments) = 1
    /\ shipments_file.shipments[1].id = ShipmentId(99999, 0)

====
